---- MODULE Spec2Model ----
(***************************************************************************)
(* PCM-to-MP3 converter wrappers around the FFmpeg WebAssembly core.       *)
(*                                                                         *)
(* Two packages are modelled: the Node.js converter (core-mp3-node), which *)
(* drives the core in-process, and the browser converter (core-mp3), which *)
(* drives it through Web Worker messages.  A behaviour uses one package    *)
(* (platform) and one entry point (driver): createConverter() followed by  *)
(* free use of the returned handle, or the one-shot convertPcmToMp3().     *)
(***************************************************************************)
EXTENDS Integers, Sequences, FiniteSets, TLC

\* ------------------------------------------------------------------ bounds
MaxCalls == 2
MaxTerminates == 2
MaxLen == 1
MaxSends == 2
MaxPosts == 3
MaxEvents == 2

\* ------------------------------------------------------- JavaScript values
\* An options field is absent, explicitly undefined, a number or a string.
Absent == [t |-> "absent", n |-> 0, s |-> ""]
Undef == [t |-> "undef", n |-> 0, s |-> ""]
Num(n) == [t |-> "num", n |-> n, s |-> ""]
Str(s) == [t |-> "str", n |-> 0, s |-> s]

OptionKeys == {"sampleRate", "channels", "bitrate", "format"}

DEFAULT_OPTIONS ==
  [sampleRate |-> Num(44100), channels |-> Num(1),
   bitrate |-> Num(128), format |-> Str("s16le")]

\* options === undefined: spreading it copies no property.
NoOptions == [k \in OptionKeys |-> Absent]

\* { ...DEFAULT_OPTIONS, ...options }: every own property of options,
\* whatever its value, replaces the default of the same name.
MergeOptions(options) ==
  [k \in OptionKeys |->
     IF options[k].t = "absent" THEN DEFAULT_OPTIONS[k] ELSE options[k]]

\* String(n) for the numbers that occur.
NumStr(n) ==
  CASE n = 44100 -> "44100"
    [] n = 8000 -> "8000"
    [] n = 128 -> "128"
    [] n = 7 -> "7"
    [] n = 1 -> "1"
    [] OTHER -> "NaN"

\* String(v) and `${v}`.
JsString(v) ==
  CASE v.t = "num" -> NumStr(v.n)
    [] v.t = "str" -> v.s
    [] OTHER -> "undefined"

\* ------------------------------------------------------------- byte arrays
NoArgs == [f |-> "", ar |-> "", ac |-> "", ba |-> <<"", "">>, codec |-> "", y |-> FALSE]

\* A Uint8Array: its length, the PCM bytes it holds or was encoded from, and
\* the FFmpeg arguments that produced it (NoArgs for raw data).
U8(bytes, args) ==
  [kind |-> "u8", len |-> Len(bytes), of |-> bytes, args |-> args, progress |-> 0]
EmptyU8 == U8(<<>>, NoArgs)
NoValue == [EmptyU8 EXCEPT !.kind = "none"]
LogEvent == [EmptyU8 EXCEPT !.kind = "log"]
\* The data of a PROGRESS message: { progress, time }, progress in percent
\* of the fraction the core reports (100 is 1.0).
ProgressEvent(p) == [EmptyU8 EXCEPT !.kind = "progress", !.progress = p]
LoadedData == [EmptyU8 EXCEPT !.kind = "loaded"]
AlreadyLoadedData == [EmptyU8 EXCEPT !.kind = "already_loaded"]
TerminatedData == [EmptyU8 EXCEPT !.kind = "terminated"]

ByteSeqs == UNION {[1..n -> {1}] : n \in 0..MaxLen}
PcmInputs == {U8(b, NoArgs) : b \in ByteSeqs}

\* The options arguments callers pass.
OptionArgs ==
  {NoOptions,
   [NoOptions EXCEPT !.sampleRate = Num(8000)],
   [NoOptions EXCEPT !.sampleRate = Undef],
   [NoOptions EXCEPT !.bitrate = Num(7)]}

\* The convert(pcmData, options) requests callers make: every input with the
\* default options, and every options argument with the longest inputs.
Requests ==
  {[pcm |-> p, options |-> NoOptions] : p \in PcmInputs}
  \cup {[pcm |-> p, options |-> o] :
          p \in {q \in PcmInputs : q.len = MaxLen},
          o \in OptionArgs}

\* ---------------------------------------------------------- the FFmpeg core
NoFile == [exists |-> FALSE, data |-> EmptyU8]
File(d) == [exists |-> TRUE, data |-> d]
CleanFS == [input |-> NoFile, output |-> NoFile]

CoreFormats == {"s16le", "s16be", "s24le", "s32le", "f32le", "f64le", "u8"}
CoreRates == {"8000", "11025", "16000", "22050", "24000", "32000", "44100", "48000"}
CoreChannels == {"1", "2"}
CoreBitrates == {"32", "64", "128", "192", "256", "320"}

\* exec(...args) on a filesystem: the exit code and the filesystem left.
\* acceptsEmpty: whether this build encodes a zero-length input.
CoreExec(args, fs, acceptsEmpty) ==
  IF ~fs.input.exists \/ args.f \notin CoreFormats
     \/ args.ar \notin CoreRates \/ args.ac \notin CoreChannels
  THEN [ret |-> 1, fs |-> fs]
  ELSE IF fs.output.exists /\ ~args.y
  THEN [ret |-> 1, fs |-> fs]
  ELSE IF args.ba[1] \notin CoreBitrates \/ args.ba[2] # "k"
  THEN [ret |-> 1, fs |-> [fs EXCEPT !.output = File(EmptyU8)]]
  ELSE IF fs.input.data.len = 0 /\ ~acceptsEmpty
  THEN [ret |-> 1, fs |-> [fs EXCEPT !.output = File(EmptyU8)]]
  ELSE [ret |-> 0,
        fs |-> [fs EXCEPT !.output = File(U8(fs.input.data.of, args))]]

\* What a freshly loaded core answers to a request.
FreshOutcome(args, pcm, acceptsEmpty) ==
  CoreExec(args, [CleanFS EXCEPT !.input = File(pcm)], acceptsEmpty)

\* The progress values a core reports, in percent of the fraction: the core
\* divides the time encoded by a duration it estimates, and the quotient may
\* leave [0, 1].
CoreProgressReports == {50, 150}

\* The builds of the core considered: whether exec encodes a zero-length
\* input, the events exec reports through setLogger/setProgress, and the
\* progress value it reports.
CoreBuilds ==
  {[acceptsEmpty |-> TRUE, events |-> <<>>, progress |-> 0]}
  \cup {[acceptsEmpty |-> FALSE, events |-> <<"LOG", "PROGRESS">>, progress |-> p] :
          p \in CoreProgressReports}

\* ------------------------------------------------------------------- state
VARIABLES
  platform,          \* "node" or "browser": the package in use
  driver,            \* "create" (createConverter) or "oneshot" (convertPcmToMp3)
  dpc,               \* position of the driver
  core,              \* the build of the FFmpeg core in use
  loaded,            \* #loaded
  progressCallback,  \* #progressCallback is set
  logCallback,       \* #logCallback is set
  ffmpeg,            \* Node #ffmpeg: 0 is null, else the core instance
  fs,                \* virtual filesystem of the Node core held in #ffmpeg
  coresCreated,      \* number of createFFmpegCore calls (Node)
  worker,            \* browser #worker: 0 is null, else an index of workers
  pending,           \* keys of the browser #pending map
  nextId,            \* the counter inside getMessageId
  workers,           \* every Worker created, in creation order
  loadsSent,         \* number of LOAD messages posted
  calls,             \* the convert() invocations
  terminations,      \* number of terminate() calls
  invoked,           \* the latest invocation of a registered callback
  peers,             \* two converters of one page used side by side (SpecPeers)
  sse,               \* the demo's reader of the TTS event stream (SpecSSE)
  mode               \* "awaited": the holder awaits each convert() before the
                     \* next one; "overlapping": it need not

clientVars == <<platform, driver, dpc, core, mode, peers, sse>>
nodeVars == <<ffmpeg, fs, coresCreated>>
browserVars == <<worker, pending, nextId, workers, loadsSent>>
callbackVars == <<progressCallback, logCallback, invoked>>

vars == <<platform, driver, dpc, core, loaded, progressCallback, logCallback,
          ffmpeg, fs, coresCreated, worker, pending, nextId, workers,
          loadsSent, calls, terminations, invoked, peers, sse, mode>>

\* Call 0 is the one made by createConverter()/convertPcmToMp3(); calls
\* 1..MaxCalls are made by the holder of the handle.
Calls == 0..MaxCalls

NoId == -1

IdleCall ==
  [pc |-> "idle", pcm |-> EmptyU8, options |-> NoOptions, token |-> NoId,
   st |-> "none", val |-> NoValue, err |-> "",
   postTerm |-> FALSE, convFailed |-> FALSE, args |-> NoArgs, warm |-> FALSE,
   epoch |-> 0, detached |-> FALSE]

Resolve(cs, c, v) == [cs EXCEPT ![c].pc = "done", ![c].st = "ok", ![c].val = v]
Reject(cs, c, e) == [cs EXCEPT ![c].pc = "done", ![c].st = "err", ![c].err = e]

Active(c) == calls[c].pc \notin {"idle", "done"}

\* A continuation of convert() is queued as a microtask of the main thread:
\* no task of the event loop runs before it.
ContinuationQueued ==
  \E c \in Calls : calls[c].pc \in {"loadOk", "afterLoad"}

\* The queued continuation follows the settling of a load, which a task of the
\* event loop brought about: the code of the holder does not run before it.
\* (After a convert() on a loaded converter the holder's code runs on to its
\* own end first.)
ResumedByLoad ==
  \E c \in Calls :
    \/ calls[c].pc = "loadOk"
    \/ calls[c].pc = "afterLoad" /\ ~calls[c].warm

\* this.#progressCallback(progress) / this.#logCallback(event): the callback,
\* its argument, and whether a convert() call was in flight at that moment.
NoInvocation == [cb |-> "none", arg |-> 0, during |-> TRUE]
Invocation(cb, arg) ==
  [cb |-> cb, arg |-> arg, during |-> \E c \in Calls : Active(c)]

Range(seq) == {seq[i] : i \in 1..Len(seq)}

\* ---------------------------------------------------------- Node converter
\* The FFmpeg command line built by the Node convert().
NodeArgs(o) ==
  [f |-> JsString(o.format), ar |-> JsString(o.sampleRate),
   ac |-> JsString(o.channels), ba |-> <<JsString(o.bitrate), "k">>,
   codec |-> "libmp3lame", y |-> FALSE]

\* A test that takes a loaded converter for an unloaded one.
NodeIsLoadedInverted == loaded /\ ffmpeg = 0

\* The test that opens the Node #ensureLoaded.
NodeIsLoaded == loaded /\ ffmpeg # 0

\* convert(pcmData, options) up to the first await of #ensureLoaded.
NodeConvert(c, pcm, options) ==
  /\ calls[c].pc = "idle"
  /\ calls' = [calls EXCEPT ![c].pc = IF NodeIsLoaded THEN "afterLoad" ELSE "readFile",
                            ![c].pcm = pcm, ![c].options = options,
                            ![c].postTerm = (terminations > 0),
                            ![c].warm = NodeIsLoaded,
                            ![c].epoch = terminations]
  /\ UNCHANGED <<loaded, nodeVars, browserVars>>

\* readFile(wasmPath) settles; require() and the createFFmpegCore call follow.
NodeReadFile(c) ==
  /\ platform = "node"
  /\ calls[c].pc = "readFile"
  /\ \/ /\ coresCreated' = coresCreated + 1
        /\ calls' = [calls EXCEPT ![c].pc = "createCore",
                                  ![c].token = coresCreated + 1]
     \/ /\ calls' = Reject(calls, c, "load failed")
        /\ UNCHANGED coresCreated
  /\ UNCHANGED <<clientVars, loaded, callbackVars, ffmpeg, fs, browserVars,
                 terminations>>

\* createFFmpegCore({ wasmBinary }) settles.
NodeCreateCore(c) ==
  /\ platform = "node"
  /\ calls[c].pc = "createCore"
  /\ \/ /\ ffmpeg' = calls[c].token
        /\ fs' = CleanFS
        /\ calls' = [calls EXCEPT ![c].pc = "ready", ![c].token = NoId]
     \/ /\ calls' = Reject(calls, c, "load failed")
        /\ UNCHANGED <<ffmpeg, fs>>
  /\ UNCHANGED <<clientVars, loaded, callbackVars, coresCreated, browserVars,
                 terminations>>

\* A continuation that sets #loaded = true whether or not a core is held.
NodeReadyMarksLoaded(c) ==
  /\ platform = "node"
  /\ calls[c].pc = "ready"
  /\ loaded' = TRUE
  /\ calls' = [calls EXCEPT ![c].pc = "afterLoad"]
  /\ UNCHANGED <<clientVars, callbackVars, nodeVars, browserVars,
                 terminations>>

\* await this.#ffmpeg.ready settles; setLogger, then #loaded = true.
NodeReady(c) ==
  /\ platform = "node"
  /\ calls[c].pc = "ready"
  /\ IF ffmpeg = 0
     THEN /\ calls' = Reject(calls, c, "TypeError")
          /\ UNCHANGED loaded
     ELSE /\ loaded' = TRUE
          /\ calls' = [calls EXCEPT ![c].pc = "afterLoad"]
  /\ UNCHANGED <<clientVars, callbackVars, nodeVars, browserVars,
                 terminations>>

\* convert() after await this.#ensureLoaded(): synchronous to its end.
NodeConvertBody(c) ==
  /\ platform = "node"
  /\ calls[c].pc = "afterLoad"
  /\ LET mergedOptions == MergeOptions(calls[c].options)
         inputData == calls[c].pcm
         written == [fs EXCEPT !.input = File(inputData)]
         r == CoreExec(NodeArgs(mergedOptions), written, core.acceptsEmpty)
         \* exec runs and the logger installed by #ensureLoaded passes a
         \* line of the core to #logCallback.
         logs == /\ ffmpeg # 0 /\ inputData.len # 0
                 /\ logCallback /\ "LOG" \in Range(core.events)
     IN /\ invoked' = IF logs THEN Invocation("LOG", 0) ELSE invoked
        /\ \/ IF ffmpeg = 0
              THEN /\ calls' = Reject(calls, c, "FFmpeg core not loaded")
                   /\ UNCHANGED fs
              ELSE IF inputData.len = 0
              THEN /\ calls' = Resolve(calls, c, EmptyU8)
                   /\ UNCHANGED fs
              ELSE IF r.ret # 0
              THEN /\ fs' = [r.fs EXCEPT !.input = NoFile]
                   /\ calls' = [Reject(calls, c, "FFmpeg conversion failed")
                                  EXCEPT ![c].convFailed = TRUE,
                                         ![c].args = NodeArgs(mergedOptions)]
              ELSE /\ fs' = CleanFS
                   /\ calls' = [Resolve(calls, c, r.fs.output.data)
                                  EXCEPT ![c].args = NodeArgs(mergedOptions)]
           \* #logCallback throws: nothing between the core and convert()
           \* catches, so exec is left where the core logged its first line.
           \/ /\ logs
              /\ fs' = written
              /\ calls' = [Reject(calls, c, "callback threw")
                             EXCEPT ![c].convFailed = TRUE,
                                    ![c].args = NodeArgs(mergedOptions)]
  /\ UNCHANGED <<clientVars, loaded, progressCallback, logCallback, ffmpeg,
                 coresCreated, browserVars, terminations>>

\* A terminate() that leaves the log callback registered.
NodeTerminateKeepsLogCallback ==
  /\ ffmpeg' = 0
  /\ loaded' = FALSE
  /\ progressCallback' = FALSE
  /\ fs' = CleanFS
  /\ UNCHANGED <<coresCreated, calls, browserVars, invoked, logCallback>>

\* terminate() of the Node converter.
NodeTerminate ==
  /\ ffmpeg' = 0
  /\ loaded' = FALSE
  /\ progressCallback' = FALSE
  /\ logCallback' = FALSE
  /\ fs' = CleanFS
  /\ UNCHANGED <<coresCreated, calls, browserVars, invoked>>

\* ------------------------------------------------------- browser converter
\* A worker as its script starts.  loading: the ids of the LOAD messages whose
\* await load(data) has not settled; closed: self.close() was called;
\* handled: id and type of the messages self.onmessage was called with.
FreshWorker ==
  [alive |-> TRUE, errored |-> FALSE, ffmpeg |-> FALSE, fs |-> CleanFS,
   currentMessageId |-> NoId, loading |-> {}, inbox |-> <<>>, outbox |-> <<>>,
   closed |-> FALSE, handled |-> {}]

\* A worker after worker.terminate(): it runs no more and nothing it holds or
\* has posted is seen again.
TerminatedWorker == [FreshWorker EXCEPT !.alive = FALSE]

Request(id, type, pcm, options) ==
  [id |-> id, type |-> type, pcm |-> pcm, options |-> options]
Response(id, type, data, error) ==
  [id |-> id, type |-> type, data |-> data, error |-> error]

\* The test that opens the browser #ensureLoaded.
BrowserIsLoaded == loaded /\ worker # 0

\* convert(pcmData, options) up to its first await: #ensureLoaded returns at
\* once, or creates a Worker and sends it LOAD.
BrowserConvert(c, pcm, options) ==
  /\ calls[c].pc = "idle"
  /\ IF BrowserIsLoaded
     THEN /\ calls' = [calls EXCEPT ![c].pc = "afterLoad",
                                    ![c].pcm = pcm, ![c].options = options,
                                    ![c].postTerm = (terminations > 0),
                                    ![c].warm = TRUE,
                                    ![c].epoch = terminations]
          /\ UNCHANGED <<browserVars>>
     ELSE /\ workers' = Append(workers,
                 [FreshWorker EXCEPT !.inbox =
                    <<Request(nextId, "LOAD", EmptyU8, NoOptions)>>])
          /\ worker' = Len(workers) + 1
          /\ pending' = pending \cup {nextId}
          /\ nextId' = nextId + 1
          /\ loadsSent' = loadsSent + 1
          /\ calls' = [calls EXCEPT ![c].pc = "awaitLoad", ![c].token = nextId,
                                    ![c].pcm = pcm, ![c].options = options,
                                    ![c].postTerm = (terminations > 0),
                                    ![c].epoch = terminations]
  /\ UNCHANGED <<loaded, nodeVars>>

\* await this.#send(LOAD) resumed by a RESULT: #loaded = true.
BrowserLoadOk(c) ==
  /\ platform = "browser"
  /\ calls[c].pc = "loadOk"
  /\ loaded' = TRUE
  /\ calls' = [calls EXCEPT ![c].pc = "afterLoad"]
  /\ UNCHANGED <<clientVars, callbackVars, nodeVars, browserVars,
                 terminations>>

\* A convert() whose #send posts CONVERT with no transfer list: the worker
\* gets a copy and the caller keeps its buffer.
BrowserConvertBodyCopies(c) ==
  /\ platform = "browser"
  /\ calls[c].pc = "afterLoad"
  /\ LET mergedOptions == MergeOptions(calls[c].options)
     IN IF worker = 0
        THEN /\ calls' = Reject(calls, c, "Worker not initialized")
             /\ UNCHANGED <<pending, nextId, workers>>
        ELSE /\ pending' = pending \cup {nextId}
             /\ nextId' = nextId + 1
             /\ workers' = [workers EXCEPT ![worker].inbox =
                   IF workers[worker].errored THEN @
                   ELSE Append(@, Request(nextId, "CONVERT", calls[c].pcm, mergedOptions))]
             /\ calls' = [calls EXCEPT ![c].pc = "awaitConvert", ![c].token = nextId]
  /\ UNCHANGED <<clientVars, loaded, callbackVars, nodeVars, worker, loadsSent,
                 terminations>>

\* convert() after await this.#ensureLoaded(): merge, then #send(CONVERT).
BrowserConvertBody(c) ==
  /\ platform = "browser"
  /\ calls[c].pc = "afterLoad"
  /\ LET mergedOptions == MergeOptions(calls[c].options)
     IN IF worker = 0
        THEN /\ calls' = Reject(calls, c, "Worker not initialized")
             /\ UNCHANGED <<pending, nextId, workers>>
        ELSE /\ pending' = pending \cup {nextId}
             /\ nextId' = nextId + 1
             /\ workers' = [workers EXCEPT ![worker].inbox =
                   IF workers[worker].errored THEN @
                   ELSE Append(@, Request(nextId, "CONVERT", calls[c].pcm, mergedOptions))]
             \* postMessage(fullMessage, [pcmData.buffer]) detaches the buffer.
             /\ calls' = [calls EXCEPT ![c].pc = "awaitConvert", ![c].token = nextId,
                                       ![c].detached = TRUE]
  /\ UNCHANGED <<clientVars, loaded, callbackVars, nodeVars, worker, loadsSent,
                 terminations>>

\* The call whose promise #pending holds under id.
Waiting(c, id) ==
  calls[c].pc \in {"awaitLoad", "awaitConvert"} /\ calls[c].token = id

\* pending.resolve(data) / pending.reject(error) for the entry under id.
Settle(cs, id, ok, data, error) ==
  [c \in Calls |->
     IF ~Waiting(c, id) THEN cs[c]
     ELSE IF ~ok THEN Reject(cs, c, error)[c]
     ELSE IF cs[c].pc = "awaitLoad" THEN [cs[c] EXCEPT !.pc = "loadOk"]
     ELSE Resolve(cs, c, data)[c]]

\* worker.onmessage: whether the event is consumed by a callback.
ToCallback(msg) ==
  \/ msg.type = "PROGRESS" /\ progressCallback
  \/ msg.type = "LOG" /\ logCallback

\* A worker.onmessage that settles the request and keeps its #pending entry.
MainOnMessageKeepsPending(w) ==
  /\ platform = "browser"
  /\ ~ContinuationQueued
  /\ w \in 1..Len(workers)
  /\ workers[w].alive
  /\ workers[w].outbox # <<>>
  /\ LET msg == Head(workers[w].outbox)
     IN /\ workers' = [workers EXCEPT ![w].outbox = Tail(@)]
        /\ invoked' = IF ToCallback(msg)
                      THEN Invocation(msg.type, msg.data.progress)
                      ELSE invoked
        /\ IF ToCallback(msg) \/ msg.id \notin pending
           THEN UNCHANGED <<pending, calls>>
           ELSE /\ pending' = pending
                /\ calls' = Settle(calls, msg.id, msg.type # "ERROR",
                                   msg.data, msg.error)
  /\ UNCHANGED <<clientVars, loaded, progressCallback, logCallback, nodeVars,
                 worker, nextId, loadsSent, terminations>>

\* worker.onmessage for the next message of worker w.
MainOnMessage(w) ==
  /\ platform = "browser"
  /\ ~ContinuationQueued
  /\ w \in 1..Len(workers)
  /\ workers[w].alive
  /\ workers[w].outbox # <<>>
  /\ LET msg == Head(workers[w].outbox)
     IN /\ workers' = [workers EXCEPT ![w].outbox = Tail(@)]
        \* A callback that throws ends the handler where its return would.
        /\ invoked' = IF ToCallback(msg)
                      THEN Invocation(msg.type, msg.data.progress)
                      ELSE invoked
        /\ IF ToCallback(msg) \/ msg.id \notin pending
           THEN UNCHANGED <<pending, calls>>
           ELSE /\ pending' = pending \ {msg.id}
                /\ calls' = Settle(calls, msg.id, msg.type # "ERROR",
                                   msg.data, msg.error)
  /\ UNCHANGED <<clientVars, loaded, progressCallback, logCallback, nodeVars,
                 worker, nextId, loadsSent, terminations>>

\* A worker.onerror that rejects only the request sent to the failed worker.
WorkerErrorRejectsOwn(w) ==
  /\ platform = "browser"
  /\ ~ContinuationQueued
  /\ w \in 1..Len(workers)
  /\ workers[w].alive /\ ~workers[w].errored
  /\ workers[w].currentMessageId = NoId /\ ~workers[w].ffmpeg
  /\ workers[w].outbox = <<>>
  /\ workers[w].inbox # <<>> /\ Head(workers[w].inbox).type = "LOAD"
  /\ workers' = [workers EXCEPT ![w].errored = TRUE, ![w].inbox = <<>>]
  /\ calls' = [c \in Calls |->
                 IF Head(workers[w].inbox).id \in pending
                    /\ Waiting(c, Head(workers[w].inbox).id)
                 THEN Reject(calls, c, "Worker error")[c] ELSE calls[c]]
  /\ pending' = {}
  /\ UNCHANGED <<clientVars, loaded, callbackVars, nodeVars, worker, nextId,
                 loadsSent, terminations>>

\* worker.onerror: the worker script failed to start, so the worker has
\* handled no message yet.
WorkerError(w) ==
  /\ platform = "browser"
  /\ ~ContinuationQueued
  /\ w \in 1..Len(workers)
  /\ workers[w].alive /\ ~workers[w].errored
  /\ workers[w].currentMessageId = NoId /\ ~workers[w].ffmpeg
  /\ workers[w].outbox = <<>>
  /\ workers[w].inbox # <<>> /\ Head(workers[w].inbox).type = "LOAD"
  /\ workers' = [workers EXCEPT ![w].errored = TRUE, ![w].inbox = <<>>]
  /\ calls' = [c \in Calls |->
                 IF \E id \in pending : Waiting(c, id)
                 THEN Reject(calls, c, "Worker error")[c] ELSE calls[c]]
  /\ pending' = {}
  /\ UNCHANGED <<clientVars, loaded, callbackVars, nodeVars, worker, nextId,
                 loadsSent, terminations>>

\* A terminate() that drops #worker without calling worker.terminate().
BrowserTerminateDropsWorker ==
  /\ worker' = 0
  /\ pending' = {}
  /\ loaded' = FALSE
  /\ progressCallback' = FALSE
  /\ logCallback' = FALSE
  /\ UNCHANGED <<workers, nextId, loadsSent, calls, nodeVars, invoked>>

\* terminate() of the browser converter.
BrowserTerminate ==
  /\ IF worker # 0
     THEN workers' = [workers EXCEPT ![worker] = TerminatedWorker]
     ELSE UNCHANGED workers
  /\ worker' = 0
  /\ pending' = {}
  /\ loaded' = FALSE
  /\ progressCallback' = FALSE
  /\ logCallback' = FALSE
  /\ UNCHANGED <<nextId, loadsSent, calls, nodeVars, invoked>>

\* ------------------------------------------------------------------ worker
\* The FFmpeg command line built by the worker's convert().
WorkerArgs(o) ==
  [f |-> JsString(o.format), ar |-> JsString(o.sampleRate),
   ac |-> JsString(o.channels), ba |-> <<JsString(o.bitrate), "k">>,
   codec |-> "", y |-> TRUE]

\* The messages the setLogger/setProgress hooks post while exec runs.
HookMessages(id, events) ==
  [i \in 1..Len(events) |->
     Response(id, events[i],
              IF events[i] = "LOG" THEN LogEvent ELSE ProgressEvent(core.progress),
              "")]

\* The worker's convert(data): the filesystem left and the message answered.
WorkerConvert(wk, msg) ==
  LET written == [wk.fs EXCEPT !.input = File(msg.pcm)]
      r == CoreExec(WorkerArgs(msg.options), written, core.acceptsEmpty)
      hooks == HookMessages(wk.currentMessageId, core.events)
  IN IF ~wk.ffmpeg
     THEN [fs |-> wk.fs, failed |-> TRUE, args |-> NoArgs,
           out |-> <<Response(msg.id, "ERROR", NoValue, "FFmpeg not loaded")>>]
     ELSE IF r.ret # 0
     THEN [fs |-> [r.fs EXCEPT !.input = NoFile], failed |-> TRUE,
           args |-> WorkerArgs(msg.options),
           out |-> hooks \o <<Response(msg.id, "ERROR", NoValue, "FFmpeg exited")>>]
     ELSE [fs |-> CleanFS, failed |-> FALSE, args |-> WorkerArgs(msg.options),
           out |-> hooks \o <<Response(msg.id, "RESULT", r.fs.output.data, "")>>]

\* self.onmessage up to its first pending await (LOAD of an unloaded worker) or
\* to its end (every other message).
WorkerOnMessage(w) ==
  /\ platform = "browser"
  /\ w \in 1..Len(workers)
  /\ workers[w].alive /\ ~workers[w].errored /\ ~workers[w].closed
  /\ workers[w].inbox # <<>>
  /\ LET msg == Head(workers[w].inbox)
         wk == [workers[w] EXCEPT !.inbox = Tail(@), !.currentMessageId = msg.id,
                                  !.handled = @ \cup {[id |-> msg.id, type |-> msg.type]}]
         r == WorkerConvert(wk, msg)
     IN CASE msg.type = "LOAD" ->
               /\ workers' = [workers EXCEPT ![w] =
                     IF wk.ffmpeg
                     THEN [wk EXCEPT !.currentMessageId = NoId,
                                     !.outbox = Append(@,
                                        Response(msg.id, "RESULT", AlreadyLoadedData, ""))]
                     ELSE [wk EXCEPT !.loading = @ \cup {msg.id}]]
               /\ UNCHANGED calls
          [] msg.type = "CONVERT" ->
               /\ workers' = [workers EXCEPT ![w] =
                     [wk EXCEPT !.fs = r.fs, !.outbox = @ \o r.out,
                                !.currentMessageId = NoId]]
               /\ calls' = [c \in Calls |->
                     IF calls[c].token = msg.id
                     THEN [calls[c] EXCEPT !.convFailed = r.failed, !.args = r.args]
                     ELSE calls[c]]
          \* self.close() discards the tasks queued for the worker and lets
          \* no further task in: messages not yet handled are never handled
          \* and a load that is awaiting never resumes.
          [] msg.type = "TERMINATE" ->
               /\ workers' = [workers EXCEPT ![w] =
                     [wk EXCEPT !.ffmpeg = FALSE, !.closed = TRUE,
                                !.inbox = <<>>, !.loading = {},
                                !.currentMessageId = NoId,
                                !.outbox = Append(@,
                                   Response(msg.id, "RESULT", TerminatedData, ""))]]
               /\ UNCHANGED calls
          [] OTHER ->
               /\ workers' = [workers EXCEPT ![w] =
                     [wk EXCEPT !.currentMessageId = NoId,
                                !.outbox = Append(@,
                                   Response(msg.id, "ERROR", NoValue, "Unknown message type"))]]
               /\ UNCHANGED calls
  /\ UNCHANGED <<clientVars, loaded, callbackVars, nodeVars, worker, pending,
                 nextId, loadsSent, terminations>>

\* await load(data) settles in the LOAD handler: the answer, then finally.
WorkerLoad(w) ==
  /\ platform = "browser"
  /\ w \in 1..Len(workers)
  /\ workers[w].alive
  /\ \E id \in workers[w].loading :
       \/ workers' = [workers EXCEPT
            ![w].ffmpeg = TRUE, ![w].fs = CleanFS, ![w].loading = @ \ {id},
            ![w].currentMessageId = NoId,
            ![w].outbox = Append(@, Response(id, "RESULT", LoadedData, ""))]
       \/ workers' = [workers EXCEPT
            ![w].loading = @ \ {id}, ![w].currentMessageId = NoId,
            ![w].outbox = Append(@, Response(id, "ERROR", NoValue, "load failed"))]
  /\ UNCHANGED <<clientVars, loaded, callbackVars, nodeVars, worker, pending,
                 nextId, loadsSent, calls, terminations, mode>>

\* The values of MessageType a request may carry, and one that is none.
RequestTypes == {"LOAD", "CONVERT", "TERMINATE", "BOGUS"}

\* A message reaches the worker from outside the converter: postMessage of a
\* request of any type, under a fresh id, to a worker that has not closed.
PostToWorker(w, type, pcm, options) ==
  /\ platform = "browser"
  /\ nextId < MaxPosts
  /\ w \in 1..Len(workers)
  /\ workers[w].alive /\ ~workers[w].closed
  /\ workers' = [workers EXCEPT ![w].inbox = Append(@,
        IF type = "CONVERT"
        THEN Request(nextId, type, pcm, MergeOptions(options))
        ELSE Request(nextId, type, EmptyU8, NoOptions))]
  /\ nextId' = nextId + 1
  /\ UNCHANGED <<clientVars, loaded, callbackVars, nodeVars, worker, pending,
                 loadsSent, calls, terminations>>

\* ------------------------------------------- converters side by side
\* Two loaded browser converters of one page.  Each has its own worker and
\* its own #pending map; both import getMessageId from the one const module.
Converters == {1, 2}

\* pending: the keys of #pending; inbox/outbox: the ids of the messages on
\* their way to and from the converter's worker; issued: the ids #send got
\* from getMessageId, in order; resolved: the ids of the requests settled.
FreshPeer ==
  [pending |-> {}, inbox |-> <<>>, outbox |-> <<>>, issued |-> <<>>,
   resolved |-> {}]

\* A #send whose getMessageId returns its counter without advancing it.
PeerSendReusesId(k) ==
  /\ Len(peers[k].issued) < MaxSends
  /\ peers' = [peers EXCEPT ![k].pending = @ \cup {nextId},
                            ![k].inbox = Append(@, nextId),
                            ![k].issued = Append(@, nextId)]
  /\ nextId' = nextId
  /\ UNCHANGED <<platform, driver, dpc, core, mode, sse, loaded, callbackVars,
                 nodeVars, worker, pending, workers, loadsSent, calls,
                 terminations>>

\* #send(message) of converter k.
PeerSend(k) ==
  /\ Len(peers[k].issued) < MaxSends
  /\ peers' = [peers EXCEPT ![k].pending = @ \cup {nextId},
                            ![k].inbox = Append(@, nextId),
                            ![k].issued = Append(@, nextId)]
  /\ nextId' = nextId + 1
  /\ UNCHANGED <<platform, driver, dpc, core, mode, sse, loaded, callbackVars,
                 nodeVars, worker, pending, workers, loadsSent, calls,
                 terminations>>

\* self.onmessage in the worker of converter k: the answer carries the id of
\* the message it answers.
PeerWorkerOnMessage(k) ==
  /\ peers[k].inbox # <<>>
  /\ peers' = [peers EXCEPT ![k].inbox = Tail(@),
                            ![k].outbox = Append(@, Head(peers[k].inbox))]
  /\ UNCHANGED <<platform, driver, dpc, core, mode, sse, loaded, callbackVars,
                 nodeVars, browserVars, calls, terminations>>

\* worker.onmessage of converter k for a RESULT of its worker.
PeerOnMessage(k) ==
  /\ peers[k].outbox # <<>>
  /\ LET id == Head(peers[k].outbox)
     IN peers' = [peers EXCEPT
          ![k].outbox = Tail(@),
          ![k].pending = @ \ {id},
          ![k].resolved = IF id \in peers[k].pending THEN @ \cup {id} ELSE @]
  /\ UNCHANGED <<platform, driver, dpc, core, mode, sse, loaded, callbackVars,
                 nodeVars, browserVars, calls, terminations>>

\* ------------------------------------------- the demo's event-stream reader
\* Text is a sequence of pieces: "\n" is the newline character, "event: " and
\* "data: " are the field prefixes, every other piece is a run of characters
\* without a newline.  A read may end between any two pieces.
NL == "\n"

\* The text of one server-sent event: event line, data line, empty line.
EventText(type, payload) ==
  <<"event: ", type, NL, "data: ">> \o payload \o <<NL, NL>>

EventTypes == {"chunk", "done"}
Payloads == {<<"a">>, <<"b", "c">>}

\* The events a stream may carry.
StreamEvents == {[event |-> <<t>>, data |-> p] : t \in EventTypes, p \in Payloads}

\* The streams read: one to MaxEvents events.
EventSeqs == UNION {[1..n -> StreamEvents] : n \in 1..MaxEvents}

RECURSIVE Flatten(_)
Flatten(seqs) ==
  IF seqs = <<>> THEN <<>> ELSE Head(seqs) \o Flatten(Tail(seqs))

StreamText(events) ==
  Flatten([i \in 1..Len(events) |-> EventText(events[i].event[1], events[i].data)])

\* chunk.split('\n')
RECURSIVE Split(_)
Split(text) ==
  IF \A i \in 1..Len(text) : text[i] # NL THEN <<text>>
  ELSE LET i == CHOOSE k \in 1..Len(text) :
                  text[k] = NL /\ \A j \in 1..(k - 1) : text[j] # NL
       IN <<SubSeq(text, 1, i - 1)>> \o Split(SubSeq(text, i + 1, Len(text)))

\* The loop of parseSSEStream over the lines left, with currentEvent,
\* currentData and the events pushed so far.
RECURSIVE ParseLines(_, _, _, _)
ParseLines(lines, currentEvent, currentData, events) ==
  IF lines = <<>> THEN events
  ELSE LET line == Head(lines)
       IN IF line # <<>> /\ line[1] = "event: "
          THEN ParseLines(Tail(lines), Tail(line), currentData, events)
          ELSE IF line # <<>> /\ line[1] = "data: "
          THEN ParseLines(Tail(lines), currentEvent,
                          IF currentData # <<>>
                          THEN currentData \o <<NL>> \o Tail(line)
                          ELSE Tail(line),
                          events)
          ELSE IF line = <<>> /\ currentEvent # <<>>
          THEN ParseLines(Tail(lines), <<>>, <<>>,
                          Append(events, [event |-> currentEvent, data |-> currentData]))
          ELSE ParseLines(Tail(lines), currentEvent, currentData, events)

\* parseSSEStream(chunk)
ParseSSEStream(text) == ParseLines(Split(text), <<>>, <<>>, <<>>)

\* buffer.lastIndexOf('\n\n'), counted from 1; 0 when there is none.
LastEventEnd(text) ==
  LET ends == {i \in 1..(Len(text) - 1) : text[i] = NL /\ text[i + 1] = NL}
  IN IF ends = {} THEN 0 ELSE CHOOSE i \in ends : \A j \in ends : j <= i

\* The data the loop over the events appends: the payload of every 'chunk'
\* or 'audio' event, in order.
RECURSIVE Collected(_)
Collected(events) ==
  IF events = <<>> THEN <<>>
  ELSE (IF Head(events).event \in {<<"chunk">>, <<"audio">>}
        THEN Head(events).data ELSE <<>>) \o Collected(Tail(events))

\* No stream is being read.
NoStream == [events |-> <<>>, rest |-> <<>>, buffer |-> <<>>, pcm |-> <<>>]

\* One turn of the while loop: reader.read() returns the next n pieces.
ReadChunk(n) ==
  /\ n \in 1..Len(sse.rest)
  /\ LET buffer == sse.buffer \o SubSeq(sse.rest, 1, n)
         events == ParseSSEStream(buffer)
         lastEventEnd == LastEventEnd(buffer)
     IN sse' = [sse EXCEPT
          !.rest = SubSeq(sse.rest, n + 1, Len(sse.rest)),
          !.buffer = IF lastEventEnd # 0
                     THEN SubSeq(buffer, lastEventEnd + 2, Len(buffer))
                     ELSE buffer,
          !.pcm = @ \o Collected(events)]
  /\ UNCHANGED <<platform, driver, dpc, core, mode, peers, loaded, callbackVars,
                 nodeVars, browserVars, calls, terminations>>

\* ------------------------------------------------------------- entry points
Convert(c, pcm, options) ==
  IF platform = "node" THEN NodeConvert(c, pcm, options)
  ELSE BrowserConvert(c, pcm, options)

TerminateBody ==
  /\ IF platform = "node" THEN NodeTerminate ELSE BrowserTerminate
  /\ terminations' = terminations + 1

\* The options createConverter() passes to its first convert().
CreateOptions ==
  IF platform = "node" THEN NoOptions
  ELSE [NoOptions EXCEPT !.sampleRate = Num(8000)]

\* createConverter(config): new converter, then convert(new Uint8Array(0)).
CreateConverter ==
  /\ driver = "create" /\ dpc = "start"
  /\ Convert(0, EmptyU8, CreateOptions)
  /\ dpc' = "running"
  /\ UNCHANGED <<platform, driver, core, mode, peers, sse, callbackVars, terminations>>

\* .catch(() => {}) and return converter: the handle reaches the caller.
CreateConverterReturn ==
  /\ driver = "create" /\ dpc = "running"
  /\ calls[0].pc = "done"
  /\ dpc' = "handle"
  /\ UNCHANGED <<platform, driver, core, mode, peers, sse, loaded, callbackVars, nodeVars,
                 browserVars, calls, terminations>>

\* convertPcmToMp3(pcmData, options): new converter, then convert in a try.
ConvertPcmToMp3(pcm, options) ==
  /\ driver = "oneshot" /\ dpc = "start"
  /\ Convert(0, pcm, options)
  /\ dpc' = "running"
  /\ UNCHANGED <<platform, driver, core, mode, peers, sse, callbackVars, terminations>>

\* finally { converter.terminate() }, then the outcome reaches the caller.
ConvertPcmToMp3Finally ==
  /\ driver = "oneshot" /\ dpc = "running"
  /\ calls[0].pc = "done"
  /\ TerminateBody
  /\ dpc' = "returned"
  /\ UNCHANGED <<platform, driver, core, mode, peers, sse>>

\* The handle's holder calls convert(pcmData, options).
ClientConvert(c, pcm, options) ==
  /\ dpc = "handle"
  /\ ~ResumedByLoad
  /\ c \in 1..MaxCalls
  /\ \A d \in 1..(c - 1) : calls[d].pc # "idle"
  /\ Convert(c, pcm, options)
  /\ mode = "awaited" => \A d \in Calls : ~Active(d)
  /\ UNCHANGED <<clientVars, callbackVars, terminations>>

\* The handle's holder calls terminate().
Terminate ==
  /\ dpc = "handle"
  /\ ~ResumedByLoad
  /\ terminations < MaxTerminates
  /\ TerminateBody
  /\ UNCHANGED <<clientVars>>

\* An onProgress(callback) that calls the callback as it stores it.
OnProgressCallsBack ==
  /\ dpc = "handle"
  /\ ~ResumedByLoad
  /\ progressCallback' = TRUE
  /\ invoked' = Invocation("PROGRESS", 0)
  /\ UNCHANGED <<clientVars, loaded, logCallback, nodeVars,
                 browserVars, calls, terminations>>

\* The handle's holder calls onProgress(callback).
OnProgress ==
  /\ dpc = "handle"
  /\ ~ResumedByLoad
  /\ progressCallback' = TRUE
  /\ UNCHANGED <<clientVars, loaded, logCallback, invoked, nodeVars,
                 browserVars, calls, terminations>>

\* The handle's holder calls onLog(callback).
OnLog ==
  /\ dpc = "handle"
  /\ ~ResumedByLoad
  /\ logCallback' = TRUE
  /\ UNCHANGED <<clientVars, loaded, progressCallback, invoked, nodeVars,
                 browserVars, calls, terminations>>

\* ----------------------------------------------------------- specification
InitAny ==
  /\ platform \in {"node", "browser"}
  /\ driver \in {"create", "oneshot"}
  /\ dpc = "start"
  /\ core \in CoreBuilds
  /\ platform = "node" => core.progress # 150
  /\ loaded = FALSE
  /\ progressCallback = FALSE
  /\ logCallback = FALSE
  /\ ffmpeg = 0
  /\ fs = CleanFS
  /\ coresCreated = 0
  /\ worker = 0
  /\ pending = {}
  /\ nextId = 0
  /\ workers = <<>>
  /\ loadsSent = 0
  /\ calls = [c \in Calls |-> IdleCall]
  /\ terminations = 0
  /\ invoked = NoInvocation
  /\ peers = [k \in Converters |-> FreshPeer]
  /\ sse = NoStream

Next ==
  \/ CreateConverter
  \/ CreateConverterReturn
  \/ \E r \in Requests : ConvertPcmToMp3(r.pcm, r.options)
  \/ ConvertPcmToMp3Finally
  \/ \E c \in Calls, r \in Requests : ClientConvert(c, r.pcm, r.options)
  \/ Terminate
  \/ OnProgress
  \/ OnLog
  \/ \E c \in Calls : NodeReadFile(c)
  \/ \E c \in Calls : NodeCreateCore(c)
  \/ \E c \in Calls : NodeReady(c)
  \/ \E c \in Calls : NodeConvertBody(c)
  \/ \E c \in Calls : BrowserLoadOk(c)
  \/ \E c \in Calls : BrowserConvertBody(c)
  \/ \E w \in 1..Len(workers) : MainOnMessage(w)
  \/ \E w \in 1..Len(workers) : WorkerError(w)
  \/ \E w \in 1..Len(workers) : WorkerOnMessage(w)
  \/ \E w \in 1..Len(workers) : WorkerLoad(w)

\* The holder of the handle awaits every convert() before its next one.
Init == InitAny /\ mode = "awaited"
Spec == Init /\ [][Next]_vars

\* The holder of a handle made by createConverter() may overlap its convert()
\* calls, and does not terminate it.
InitOverlapping == InitAny /\ driver = "create" /\ mode = "overlapping"

NextOverlapping ==
  \/ CreateConverter
  \/ CreateConverterReturn
  \/ \E c \in Calls, r \in Requests : ClientConvert(c, r.pcm, r.options)
  \/ OnProgress
  \/ OnLog
  \/ \E c \in Calls : NodeReadFile(c)
  \/ \E c \in Calls : NodeCreateCore(c)
  \/ \E c \in Calls : NodeReady(c)
  \/ \E c \in Calls : NodeConvertBody(c)
  \/ \E c \in Calls : BrowserLoadOk(c)
  \/ \E c \in Calls : BrowserConvertBody(c)
  \/ \E w \in 1..Len(workers) : MainOnMessage(w)
  \/ \E w \in 1..Len(workers) : WorkerError(w)
  \/ \E w \in 1..Len(workers) : WorkerOnMessage(w)
  \/ \E w \in 1..Len(workers) : WorkerLoad(w)

SpecOverlapping == InitOverlapping /\ [][NextOverlapping]_vars

\* The scheduling the event loops guarantee: a settled await resumes, a posted
\* message is handled, a driver whose call settled goes on.  Calls of the
\* holder of the handle and worker script failures are not forced.
Fairness ==
  /\ \A c \in Calls :
       /\ WF_vars(NodeReadFile(c)) /\ WF_vars(NodeCreateCore(c))
       /\ WF_vars(NodeReady(c)) /\ WF_vars(NodeConvertBody(c))
       /\ WF_vars(BrowserLoadOk(c)) /\ WF_vars(BrowserConvertBody(c))
  /\ \A w \in 1..(MaxCalls + 1) :
       /\ WF_vars(MainOnMessage(w)) /\ WF_vars(WorkerOnMessage(w))
       /\ WF_vars(WorkerLoad(w))
  /\ WF_vars(CreateConverterReturn) /\ WF_vars(ConvertPcmToMp3Finally)

FairSpec == Spec /\ Fairness

\* Two converters used side by side, each sending up to MaxSends requests.
InitPeers ==
  /\ InitAny /\ mode = "awaited"
  /\ platform = "browser" /\ driver = "create" /\ core.events = <<>>

NextPeers ==
  \/ \E k \in Converters : PeerSend(k)
  \/ \E k \in Converters : PeerWorkerOnMessage(k)
  \/ \E k \in Converters : PeerOnMessage(k)

SpecPeers == InitPeers /\ [][NextPeers]_vars

\* One worker script, started and sent up to MaxPosts messages of any type.
InitWorker ==
  /\ platform = "browser" /\ driver = "create" /\ dpc = "start"
  /\ mode = "awaited"
  /\ core \in CoreBuilds
  /\ loaded = FALSE /\ progressCallback = FALSE /\ logCallback = FALSE
  /\ ffmpeg = 0 /\ fs = CleanFS /\ coresCreated = 0
  /\ worker = 1 /\ pending = {} /\ nextId = 0
  /\ workers = <<FreshWorker>>
  /\ loadsSent = 0
  /\ calls = [c \in Calls |-> IdleCall]
  /\ terminations = 0
  /\ invoked = NoInvocation
  /\ peers = [k \in Converters |-> FreshPeer]
  /\ sse = NoStream

NextWorker ==
  \/ \E t \in RequestTypes, r \in Requests : PostToWorker(1, t, r.pcm, r.options)
  \/ WorkerOnMessage(1)
  \/ WorkerLoad(1)

SpecWorker == InitWorker /\ [][NextWorker]_vars

\* The demo reads one event stream, split into reads in any way.
InitSSE ==
  /\ platform = "node" /\ driver = "create" /\ dpc = "start"
  /\ mode = "awaited"
  /\ core \in CoreBuilds /\ core.events = <<>>
  /\ loaded = FALSE /\ progressCallback = FALSE /\ logCallback = FALSE
  /\ ffmpeg = 0 /\ fs = CleanFS /\ coresCreated = 0
  /\ worker = 0 /\ pending = {} /\ nextId = 0
  /\ workers = <<>>
  /\ loadsSent = 0
  /\ calls = [c \in Calls |-> IdleCall]
  /\ terminations = 0
  /\ invoked = NoInvocation
  /\ peers = [k \in Converters |-> FreshPeer]
  /\ \E events \in EventSeqs :
       sse = [events |-> events, rest |-> StreamText(events),
              buffer |-> <<>>, pcm |-> <<>>]

NextSSE == \E n \in 1..Len(sse.rest) : ReadChunk(n)

SpecSSE == InitSSE /\ [][NextSSE]_vars

\* ------------------------------------------------------------------ claims
\* Errors convert() raises because the core could not be loaded, the worker
\* script failed or terminate() was called meanwhile.
LifecycleErrors ==
  {"load failed", "TypeError", "FFmpeg core not loaded",
   "Worker not initialized", "Worker error"}

\* The call's conversion ran to an outcome of its own.
Converted(c) ==
  /\ calls[c].pc = "done"
  /\ calls[c].st = "err" => calls[c].err \notin LifecycleErrors

\* The FFmpeg command line the package in use builds.
PlatformArgs(o) == IF platform = "node" THEN NodeArgs(o) ELSE WorkerArgs(o)

\* C1: in the browser package a convert() promise is settled only by the
\* RESULT or ERROR message of its own request: whenever it has resolved, it
\* holds the MP3 data encoded from its own input with its own options, never
\* the payload of a PROGRESS or LOG message.
C1_SettledByOwnResult ==
  platform = "browser" =>
    \A c \in Calls :
      calls[c].st = "ok" =>
        /\ calls[c].val.kind = "u8"
        /\ calls[c].val.of = calls[c].pcm.of
        /\ calls[c].val.args = WorkerArgs(MergeOptions(calls[c].options))

\* C2: a convert() of a zero-length input that ran its conversion resolved
\* with a zero-length byte array, in the Node and in the browser converter.
C2_EmptyInputEmptyOutput ==
  \A c \in Calls :
    (Converted(c) /\ calls[c].pcm.len = 0) =>
      /\ calls[c].st = "ok"
      /\ calls[c].val.kind = "u8"
      /\ calls[c].val.len = 0

\* C3: every convert() made after terminate() fails with the "converter
\* terminated" error.
C3_ConvertAfterTerminateFails ==
  \A c \in Calls :
    (calls[c].pc = "done" /\ calls[c].postTerm) =>
      /\ calls[c].st = "err"
      /\ calls[c].err = "converter terminated"

\* C4: every convert() call that has started eventually settles, whatever
\* terminate() calls and worker errors interleave with it.
C4_EveryConvertSettles ==
  \A c \in Calls : Active(c) ~> (calls[c].pc = "done")

\* C5: a convert() whose conversion failed (FFmpeg exited with a non-zero
\* code or a step threw) has, once settled, surfaced an error and returned
\* no data.
C5_FailureSurfacesError ==
  \A c \in Calls :
    (calls[c].pc = "done" /\ calls[c].convFailed) =>
      /\ calls[c].st = "err"
      /\ calls[c].val = NoValue

C7_OneShotReleases ==
  dpc = "returned" =>
    /\ terminations = 1
    /\ ~loaded /\ ffmpeg = 0 /\ worker = 0
    /\ \A w \in 1..Len(workers) : ~workers[w].alive

\* C7 witness: a one-shot conversion in the browser whose FFmpeg run failed
\* has returned to its caller with an error.
C7_Witness ==
  /\ dpc = "returned" /\ platform = "browser"
  /\ calls[0].st = "err" /\ calls[0].convFailed
  /\ Len(workers) = 1

\* C8: whenever createConverter() resolves, the converter it returns is
\* loaded.
C8_CreateResolvesLoaded ==
  [][(dpc = "running" /\ dpc' = "handle") => loaded']_vars

\* The converter is loaded and holds the core or worker it loaded.
HoldsLoadedCore ==
  loaded /\ (IF platform = "node" THEN ffmpeg # 0 ELSE worker # 0)

\* C9: while the converter is loaded and holds its core or worker, no step
\* of awaited convert() calls, failed ones included, instantiates the core
\* again: no createFFmpegCore call, no new Worker and no LOAD message.
C9_NoReinitialization ==
  [][HoldsLoadedCore =>
       /\ coresCreated' = coresCreated
       /\ Len(workers') = Len(workers)
       /\ loadsSent' = loadsSent]_vars

\* C9 witness: on a loaded handle that was never terminated a conversion
\* failed, the next one succeeded, and one core instance served them all.
C9_Witness ==
  /\ loaded /\ terminations = 0
  /\ calls[1].pc = "done" /\ calls[1].convFailed
  /\ calls[2].pc = "done" /\ calls[2].st = "ok" /\ calls[2].val.len > 0
  /\ coresCreated + Len(workers) = 1
  /\ loadsSent = Len(workers)

\* The options convert() is documented to run with: the default of every
\* field the caller gave no value for, the caller's value otherwise.
DocumentedOptions(options) ==
  [k \in OptionKeys |->
     IF options[k].t \in {"absent", "undef"} THEN DEFAULT_OPTIONS[k]
     ELSE options[k]]

\* C10: every FFmpeg command line is built from the documented options of
\* its call, so it carries a defined format, rate, channel count and bitrate.
C10_DefaultsApplied ==
  \A c \in Calls :
    calls[c].args # NoArgs =>
      /\ calls[c].args = PlatformArgs(DocumentedOptions(calls[c].options))
      /\ "undefined" \notin {calls[c].args.f, calls[c].args.ar,
                             calls[c].args.ac, calls[c].args.ba[1]}

\* The request names a format, rate, channel count or bitrate the encoder
\* does not support.
InvalidRequest(options) ==
  LET a == PlatformArgs(MergeOptions(options))
  IN \/ a.f \notin CoreFormats \/ a.ar \notin CoreRates
     \/ a.ac \notin CoreChannels \/ a.ba[1] \notin CoreBitrates

\* C11: a convert() of an invalid request never gets as far as writing the
\* input to the virtual filesystem and running FFmpeg exec on it.
C11_InvalidFailsFast ==
  \A c \in Calls :
    (calls[c].pc # "idle" /\ InvalidRequest(calls[c].options)) =>
      calls[c].args = NoArgs

\* C12: an exception thrown by a registered callback is ignored: no convert()
\* fails with it, and it leaves no input file behind in the Node core's
\* filesystem, which no conversion whose callbacks return leaves either.
C12_CallbackExceptionIgnored ==
  /\ \A c \in Calls : calls[c].st = "err" => calls[c].err # "callback threw"
  /\ platform = "node" => ~fs.input.exists

\* C13: a registered progress or log callback is invoked only while a
\* convert() call on its converter is in flight.
C13_CallbackOnlyDuringConvert ==
  invoked.cb # "none" => invoked.during

\* C17: a convert() of a zero-length input sends no CONVERT message, writes
\* no file and does not run FFmpeg exec.
C17_EmptyInputSkipsEncoder ==
  \A c \in Calls :
    (calls[c].pc # "idle" /\ calls[c].pcm.len = 0) =>
      /\ calls[c].pc # "awaitConvert"
      /\ calls[c].args = NoArgs

\* C18: every value passed to a progress callback is a fraction in [0, 1]
\* (0 to 100 percent).
C18_ProgressIsFraction ==
  invoked.cb = "PROGRESS" => invoked.arg \in 0..100

\* The converter holds nothing: no core, no worker, no callback, no pending
\* request, and it is not loaded.
Released ==
  /\ ~loaded /\ ffmpeg = 0 /\ worker = 0
  /\ ~progressCallback /\ ~logCallback /\ pending = {}

\* C16: every terminate(), whatever the state it is called in, leaves the
\* converter holding nothing, and a terminate() of a converter that holds
\* nothing changes nothing.
C16_TerminateReleases ==
  [][terminations' # terminations =>
       /\ Released'
       /\ Released => UNCHANGED <<loaded, callbackVars, nodeVars, browserVars,
                                  calls>>]_vars

\* C16 witness: the browser converter was terminated twice, the first time
\* with a request in flight, and holds nothing.
C16_Witness ==
  /\ platform = "browser" /\ terminations = 2 /\ Released
  /\ \E c \in Calls : calls[c].pc = "awaitConvert"
  /\ \E w \in 1..Len(workers) : ~workers[w].alive

\* The call ran its conversion and no callback of the caller threw in it.
RanUndisturbed(c) == Converted(c) /\ calls[c].err # "callback threw"

\* C15: two convert() calls of one handle with the same bytes and the same
\* options, each of which ran its conversion, have the same outcome: the
\* same bytes or the same error.
C15_SameRequestSameOutcome ==
  \A c, d \in Calls :
    (/\ RanUndisturbed(c) /\ RanUndisturbed(d)
     /\ calls[c].pcm = calls[d].pcm /\ calls[c].options = calls[d].options) =>
      /\ calls[c].st = calls[d].st
      /\ calls[c].val = calls[d].val
      /\ calls[c].err = calls[d].err

\* C20: of convert() calls that overlap on a loaded converter, each one that
\* resolves holds the output encoded from its own input with its own
\* options, never another call's data.
C20_OverlappingCallsOwnOutput ==
  \A c \in Calls :
    (calls[c].warm /\ calls[c].st = "ok") =>
      /\ calls[c].val.kind = "u8"
      /\ calls[c].val.of = calls[c].pcm.of
      /\ calls[c].val.len # 0 =>
            calls[c].val.args = PlatformArgs(MergeOptions(calls[c].options))

\* C14: converters used side by side share no mutable state: the ids a
\* converter's requests are given depend on its own requests alone (its n-th
\* request gets the n-th id), and every request a converter resolves is one
\* it sent itself.
C14_NoSharedState ==
  \A k \in Converters :
    /\ \A i \in 1..Len(peers[k].issued) : peers[k].issued[i] = i - 1
    /\ peers[k].resolved \subseteq Range(peers[k].issued)

\* ------------------------------------------------------------------- loading
\* The places of a convert() inside #ensureLoaded, past its opening test.
LoadingPcs == {"readFile", "createCore", "ready", "awaitLoad", "loadOk"}

Loading(c) == calls[c].pc \in LoadingPcs

\* C21: loading is single-flight.  However convert() calls overlap on an
\* unloaded converter, at most one of them is inside the load at a time: one
\* Worker created and one LOAD sent in the browser, one createFFmpegCore in
\* Node, so that no worker or core is replaced by the one of a second load.
C21_SingleFlightLoad ==
  Cardinality({c \in Calls : Loading(c)}) <= 1

\* C22: a CONVERT message is only ever posted to a worker that has answered
\* LOAD with RESULT: no worker handles CONVERT with its ffmpeg unset, and
\* 'FFmpeg not loaded. Call load() first.' reaches no convert() call.
C22_ConvertOnlyAfterLoad ==
  /\ \A w \in 1..Len(workers) :
        workers[w].alive =>
          /\ \A m \in Range(workers[w].inbox) :
                m.type = "CONVERT" => workers[w].ffmpeg
          /\ \A m \in Range(workers[w].outbox) : m.error # "FFmpeg not loaded"
  /\ \A c \in Calls : calls[c].err # "FFmpeg not loaded"

\* The converter holds something: it is marked loaded or has a core or worker.
Holds == loaded \/ ffmpeg # 0 \/ worker # 0

\* C23: terminate() is final for a load in progress.  Once terminate() has
\* returned, the converter stays unloaded and holds no core and no worker
\* until a convert() is issued after that terminate(): a load begun before it
\* never marks the converter loaded again.
C23_TerminateFinalForLoad ==
  (terminations > 0 /\ Holds) =>
    \E c \in Calls : calls[c].pc # "idle" /\ calls[c].epoch = terminations

\* C24: virtual-filesystem cleanliness.  Whenever a convert() has completed,
\* by returning or by throwing, neither /input.pcm nor /output.mp3 exists in
\* the filesystem of the core that ran it.
C24_FilesystemClean ==
  \A c \in Calls :
    calls[c].pc = "done" =>
      /\ platform = "node" => fs = CleanFS
      /\ platform = "browser" =>
            \A w \in 1..Len(workers) : workers[w].alive => workers[w].fs = CleanFS

\* C25: a failed load leaves the converter in its initial state.  A step in
\* which a convert() fails inside the load (the core factory rejects, the
\* worker answers LOAD with ERROR or raises onerror) ends with the converter
\* unloaded and holding no worker and no core.
C25_FailedLoadResets ==
  [][\A c \in Calls :
       (Loading(c) /\ calls'[c].pc = "done" /\ calls'[c].st = "err") => ~Holds']_vars

\* ------------------------------------------------------------ pending map
\* Call c awaits the promise #pending holds under id.
Pends(c, id) == id \in pending /\ Waiting(c, id)

\* The step delivers the next message of worker w to worker.onmessage.
Delivers(w) ==
  /\ workers[w].alive /\ workers[w].outbox # <<>>
  /\ workers' = [workers EXCEPT ![w].outbox = Tail(@)]

Errors(w) == ~workers[w].errored /\ workers'[w].errored

\* C29: when a worker raises an error event, every request pending at that
\* moment is rejected with the event's message and #pending is empty
\* afterwards.
C29_WorkerErrorRejectsAll ==
  [][\A w \in 1..Len(workers) :
       Errors(w) =>
         /\ pending' = {}
         /\ \A c \in Calls, id \in pending :
              Pends(c, id) =>
                /\ calls'[c].pc = "done" /\ calls'[c].st = "err"
                /\ calls'[c].err = "Worker error"]_vars

\* One error event has rejected two pending requests: two calls failed with
\* the worker error although only one worker raised it.
C29_Witness ==
  /\ platform = "browser" /\ pending = {}
  /\ Cardinality({w \in 1..Len(workers) : workers[w].errored}) = 1
  /\ \E c \in Calls, d \in Calls :
        /\ c # d
        /\ calls[c].pc = "done" /\ calls[c].err = "Worker error"
        /\ calls[d].pc = "done" /\ calls[d].err = "Worker error"

\* ------------------------------------------------------------- message ids
\* The ids getMessageId has returned to any converter.
IssuedIds == UNION {Range(peers[k].issued) : k \in Converters}

\* C28: getMessageId() returns 0, 1, 2, ... strictly increasing: the ids
\* issued so far are exactly those below the counter, each was issued once,
\* each converter got its ids in increasing order, and no two requests pending
\* at the same time, on one converter or on two, carry the same id.
C28_UniqueMessageIds ==
  /\ IssuedIds = 0..(nextId - 1)
  /\ \A k \in Converters :
        /\ \A i \in 1..Len(peers[k].issued), j \in 1..Len(peers[k].issued) :
              i < j => peers[k].issued[i] < peers[k].issued[j]
        /\ peers[k].pending \subseteq Range(peers[k].issued)
  /\ \A k \in Converters, l \in Converters :
        k # l => Range(peers[k].issued) \cap Range(peers[l].issued) = {}

\* Both converters have requests pending at the same time, one of them two.
C28_Witness ==
  /\ \A k \in Converters : peers[k].pending # {}
  /\ \E k \in Converters : Cardinality(peers[k].pending) = MaxSends

\* ------------------------------------------------------- worker responses
\* The terminal responses worker record wk has posted for request id.
TerminalResponses(wk, id) ==
  {i \in 1..Len(wk.outbox) :
     wk.outbox[i].id = id /\ wk.outbox[i].type \in {"RESULT", "ERROR"}}

\* C26: for every message the worker receives it posts exactly one terminal
\* response, RESULT or ERROR, with the id of the request: never two, and one
\* as soon as the handler of the message is no longer awaiting; a message of
\* an unknown type is answered ERROR 'Unknown message type'.
C26_OneTerminalResponse ==
  \A w \in 1..Len(workers) :
    LET wk == workers[w]
    IN /\ \A m \in wk.handled :
            /\ Cardinality(TerminalResponses(wk, m.id)) <= 1
            /\ m.id \notin wk.loading =>
                  Cardinality(TerminalResponses(wk, m.id)) = 1
            /\ m.type \notin {"LOAD", "CONVERT", "TERMINATE"} =>
                  \E i \in TerminalResponses(wk, m.id) :
                    /\ wk.outbox[i].type = "ERROR"
                    /\ wk.outbox[i].error = "Unknown message type"
       /\ \A i \in 1..Len(wk.outbox) :
            \E m \in wk.handled : m.id = wk.outbox[i].id

\* ------------------------------------------------------- the caller's input
\* The errors convert() rejects with before it posts CONVERT.
BeforeSendErrors == {"load failed", "Worker error", "Worker not initialized"}

\* The pcmData of call c is the caller's: call 0 of createConverter() passes
\* an array of its own.
CallerInput(c) == ~(driver = "create" /\ c = 0)

\* C30 (as claimed): convert() leaves the caller's input unchanged.  After a
\* convert() has settled its pcmData is neither mutated nor detached, in the
\* Node and in the browser converter.
C30_InputUnchanged ==
  \A c \in Calls :
    (CallerInput(c) /\ calls[c].pc = "done") => ~calls[c].detached

\* C30 (amended): the Node convert() leaves the caller's input unchanged.  The
\* browser convert() transfers the input's buffer to the worker when it posts
\* CONVERT: after every convert() that resolves the caller's array is
\* detached, and it is unchanged only after a convert() that rejected before
\* CONVERT was posted.
C30_InputKeptOrTransferred ==
  \A c \in Calls :
    /\ platform = "node" => ~calls[c].detached
    /\ (platform = "browser" /\ CallerInput(c) /\ calls[c].pc = "done") =>
          /\ calls[c].st = "ok" => calls[c].detached
          /\ ~calls[c].detached =>
                calls[c].st = "err" /\ calls[c].err \in BeforeSendErrors

\* A browser convert() of a non-empty array has resolved and the array is
\* detached.
C30_Witness ==
  /\ platform = "browser"
  /\ \E c \in Calls :
        /\ CallerInput(c)
        /\ calls[c].pc = "done" /\ calls[c].st = "ok"
        /\ calls[c].pcm.len > 0 /\ calls[c].detached

\* ---------------------------------------------------------- loaded flag
\* C31: in every reachable state, loaded being true implies that the
\* converter holds a core (Node: #ffmpeg is non-null) or a worker (browser:
\* #worker is non-null), however load, convert and terminate interleave.
C31_LoadedImpliesHeld ==
  loaded => IF platform = "node" THEN ffmpeg # 0 ELSE worker # 0

\* The converter is loaded by a load that a terminate() interrupted: the
\* call that loaded it was issued before the last terminate().
C31_Witness ==
  /\ loaded /\ terminations > 0
  /\ \E c \in Calls :
        /\ ~calls[c].warm /\ calls[c].epoch < terminations
        /\ calls[c].pc \in {"afterLoad", "done"}
        /\ calls[c].st # "err"

\* ------------------------------------------------------ the two packages
\* What a caller sees of a settled convert(): resolved with which bytes, or
\* rejected.
Outcome(ok, data) ==
  IF ok THEN [st |-> "ok", len |-> data.len, of |-> data.of]
  ELSE [st |-> "err", len |-> 0, of |-> <<>>]

\* The first convert(pcm, options) of a freshly loaded Node converter.
NodeOutcome(pcm, options) ==
  LET r == FreshOutcome(NodeArgs(MergeOptions(options)), pcm, core.acceptsEmpty)
  IN IF pcm.len = 0 THEN Outcome(TRUE, EmptyU8)
     ELSE Outcome(r.ret = 0, r.fs.output.data)

\* The first convert(pcm, options) of a freshly loaded browser converter: the
\* RESULT or ERROR its worker answers the CONVERT message with.
BrowserOutcome(pcm, options) ==
  LET wk == [FreshWorker EXCEPT !.ffmpeg = TRUE]
      r == WorkerConvert(wk, Request(0, "CONVERT", pcm, MergeOptions(options)))
      answer == r.out[Len(r.out)]
  IN Outcome(answer.type = "RESULT", answer.data)

\* C32: the browser and the Node converter behave the same.  For every
\* convert() issued, the two packages build the same FFmpeg invocation from
\* the merged options, and over the same core they reach the same outcome:
\* both resolve with the same bytes or both reject.
C32_SameBehaviour ==
  \A c \in Calls :
    calls[c].pc # "idle" =>
      /\ NodeArgs(MergeOptions(calls[c].options))
           = WorkerArgs(MergeOptions(calls[c].options))
      /\ NodeOutcome(calls[c].pcm, calls[c].options)
           = BrowserOutcome(calls[c].pcm, calls[c].options)

C34_SplitIndependent ==
  sse.rest = <<>> => sse.pcm = Collected(sse.events)

\* ------------------------------------------------------- currentMessageId
\* Every LOG or PROGRESS message worker record wk has posted is followed,
\* after further such messages only, by the terminal response of its request.
HooksCarryOwnId(wk) ==
  \A i \in 1..Len(wk.outbox) :
    wk.outbox[i].type \in {"LOG", "PROGRESS"} =>
      \E j \in (i + 1)..Len(wk.outbox) :
        /\ wk.outbox[j].type \in {"RESULT", "ERROR"}
        /\ wk.outbox[j].id = wk.outbox[i].id
        /\ \A k \in (i + 1)..(j - 1) : wk.outbox[k].type \in {"LOG", "PROGRESS"}

\* C35: in the worker every LOG and PROGRESS message carries the id of the
\* request whose handling produced it, and currentMessageId is null exactly
\* when no request handler is active, also when a message is handled while an
\* earlier LOAD handler is still awaiting.
C35_CurrentMessageIdTracksHandler ==
  \A w \in 1..Len(workers) :
    /\ HooksCarryOwnId(workers[w])
    /\ (workers[w].currentMessageId = NoId) <=> (workers[w].loading = {})
    /\ workers[w].currentMessageId # NoId =>
          workers[w].currentMessageId \in workers[w].loading


====
